---------------------------- MODULE Spec2Model ----------------------------
(***************************************************************************)
(* A model of serial::Serializable, serial::Factory and the scalar and     *)
(* sequence codecs of Serializable.h.                                      *)
(*                                                                         *)
(* Three specifications share the module:                                  *)
(*   SpecFactory  the prototype registry (Factory::add, create, ~Factory)  *)
(*   SpecStore    the member store with operator<< and operator>>          *)
(*   SpecRaw      readByteVec applied to arbitrary byte buffers            *)
(*                                                                         *)
(* A value of a C++ scalar type of w bits is the sequence of its w/8       *)
(* base-256 digits, least significant digit first (its value, not its      *)
(* memory layout).  A ByteVec is a sequence of bytes in wire order.        *)
(***************************************************************************)
EXTENDS Integers, Sequences, FiniteSets, TLC

VARIABLES
    \* ---- Factory ----
    heap,            \* the Serializable objects allocated so far: id -> [type, deletes]
    _serializables,  \* Factory::_serializables, name -> object id
    factoryAlive,    \* FALSE once ~Factory has run
    firstReg,        \* history: the first non-null instance passed to add under each name
    accepted,        \* history: the ids add has stored in the map
    rejected,        \* history: per name, the classes of the instances add has refused
    flast,           \* history: the last Factory call and what it observed
    \* ---- Member store and codecs ----
    bigEndian,       \* the host byte order (__BYTE_ORDER == __BIG_ENDIAN)
    _members,        \* Serializable::_members, name -> SerializedMember
    enc,             \* history: the last value streamed into each member
    last,            \* history: the last store call and what it observed
    \* ---- readByteVec on a raw buffer ----
    rawCall          \* the call's inputs and, once it has run, its outputs

vars == <<heap, _serializables, factoryAlive, firstReg, accepted, rejected, flast,
          bigEndian, _members, enc, last, rawCall>>

factoryVars == <<heap, _serializables, factoryAlive, firstReg, accepted, rejected,
                 flast>>
storeVars   == <<bigEndian, _members, enc, last>>
rawVars     == <<rawCall>>

-----------------------------------------------------------------------------
(* Bounds *)

MaxInst == 4     \* objects ever allocated in one run
MaxLen  == 2     \* elements of a streamed array or vector
MaxBuf  == 5     \* bytes of a raw buffer handed to readByteVec

-----------------------------------------------------------------------------
(* Generic helpers *)

Range(f) == {f[x] : x \in DOMAIN f}

Min(a, b) == IF a < b THEN a ELSE b

-----------------------------------------------------------------------------
(***************************************************************************)
(* Factory                                                                 *)
(***************************************************************************)

NULL == 0

\* Registered names, in std::map iteration order.
NameOrder == <<"Bar", "Foo">>
Names == Range(NameOrder)

\* Concrete classes derived from Serializable.
Classes == {"TFoo", "TBar"}

\* An empty std::map.
EmptyMap == [n \in {} |-> NULL]

NoCall == [op |-> "none", name |-> "", inst |-> NULL, result |-> NULL,
           found |-> FALSE, held |-> FALSE, aborted |-> FALSE]

\* Serializable::create() const = 0: the concrete class returns a new object
\* of its own class.
Serializable_create(h, proto) == [type |-> h[proto].type, deletes |-> 0]

\* The map after Factory::add(cName, cInst) when the overwrite bug is present.
add_overwrite(reg, cName, cInst) ==
    IF cInst = NULL THEN reg
    ELSE [n \in (DOMAIN reg) \cup {cName} |-> IF n = cName THEN cInst ELSE reg[n]]

\* The map after Factory::add(cName, cInst).
add(reg, cName, cInst) ==
    IF cInst = NULL THEN reg
    ELSE IF cName \in DOMAIN reg THEN reg
    ELSE [n \in (DOMAIN reg) \cup {cName} |-> IF n = cName THEN cInst ELSE reg[n]]

\* The prototype Factory::create(cName) clones, NULL when find() fails.
create(reg, cName) == IF cName \in DOMAIN reg THEN reg[cName] ELSE NULL

\* ~Factory: delete it->second for every entry, in key order.  Deleting an
\* object twice is undefined: the run either carries on (abortOnDouble =
\* FALSE) or the allocator aborts the process at the second delete.
RECURSIVE DeleteAll(_, _, _, _)
DeleteAll(h, reg, i, abortOnDouble) ==
    IF i > Len(NameOrder) THEN [heap |-> h, aborted |-> FALSE]
    ELSE IF NameOrder[i] \notin DOMAIN reg THEN DeleteAll(h, reg, i + 1, abortOnDouble)
    ELSE LET p == reg[NameOrder[i]]
         IN IF h[p].deletes > 0 /\ abortOnDouble
            THEN [heap |-> h, aborted |-> TRUE]
            ELSE DeleteAll([h EXCEPT ![p].deletes = Min(@ + 1, 2)], reg, i + 1,
                           abortOnDouble)

InitFactoryVars ==
    /\ heap = <<>>
    /\ _serializables = EmptyMap
    /\ factoryAlive = TRUE
    /\ firstReg = [n \in Names |-> NULL]
    /\ accepted = {}
    /\ rejected = [n \in Names |-> {}]
    /\ flast = NoCall

\* The caller constructs a prototype: new C.
New(c) ==
    /\ factoryAlive
    /\ Len(heap) < MaxInst
    /\ heap' = Append(heap, [type |-> c, deletes |-> 0])
    /\ flast' = [NoCall EXCEPT !.op = "new", !.result = Len(heap) + 1]
    /\ UNCHANGED <<_serializables, factoryAlive, firstReg, accepted, rejected>>

\* factory.add(cName, cInst), cInst null or a live object.
Add(cName, cInst) ==
    /\ factoryAlive
    /\ cInst # NULL => heap[cInst].deletes = 0
    /\ _serializables' = add(_serializables, cName, cInst)
    /\ firstReg' = IF firstReg[cName] = NULL THEN [firstReg EXCEPT ![cName] = cInst]
                   ELSE firstReg
    /\ accepted' = IF _serializables' # _serializables
                   THEN accepted \cup {cInst} ELSE accepted
    /\ rejected' = IF cInst # NULL /\ firstReg[cName] # NULL
                   THEN [rejected EXCEPT ![cName] = @ \cup {heap[cInst].type}]
                   ELSE rejected
    /\ flast' = [NoCall EXCEPT !.op = "add", !.name = cName, !.inst = cInst,
                               !.found = (firstReg[cName] # NULL),
                               !.held = (cInst \in Range(_serializables))]
    /\ UNCHANGED <<heap, factoryAlive>>

\* factory.create(cName).
Create(cName) ==
    /\ factoryAlive
    /\ LET proto == create(_serializables, cName)
       IN IF proto = NULL
          THEN /\ heap' = heap
               /\ flast' = [NoCall EXCEPT !.op = "create", !.name = cName]
          ELSE /\ Len(heap) < MaxInst
               /\ heap' = Append(heap, Serializable_create(heap, proto))
               /\ flast' = [NoCall EXCEPT !.op = "create", !.name = cName,
                                          !.result = Len(heap) + 1, !.found = TRUE]
    /\ UNCHANGED <<_serializables, factoryAlive, firstReg, accepted, rejected>>

\* ~Factory().
Teardown ==
    /\ factoryAlive
    /\ \E abortOnDouble \in BOOLEAN :
         LET r == DeleteAll(heap, _serializables, 1, abortOnDouble)
         IN /\ heap' = r.heap
            /\ _serializables' = IF r.aborted THEN _serializables ELSE EmptyMap
            /\ flast' = [NoCall EXCEPT !.op = "teardown", !.aborted = r.aborted]
    /\ factoryAlive' = FALSE
    /\ UNCHANGED <<firstReg, accepted, rejected>>

-----------------------------------------------------------------------------
(***************************************************************************)
(* Scalar types                                                            *)
(***************************************************************************)

\* enum Type
NONE == "NONE"
Tags == {"NONE", "UINT8", "INT8", "UINT16", "INT16", "UINT32", "INT32",
         "UINT64", "INT64", "FLT32", "FLT64", "FLT128"}

\* The C++ types streamed in and out.  "void*" stands for the types that are
\* neither integral nor floating point.
IntTypes   == {"uint8_t", "int8_t", "uint16_t", "int16_t",
               "uint32_t", "int32_t", "uint64_t", "int64_t"}
FloatTypes == {"float", "double", "long double"}
OtherTypes == {"void*"}
CTypes     == IntTypes \cup FloatTypes \cup OtherTypes

sizeof(T) ==
    CASE T \in {"uint8_t", "int8_t"} -> 1
      [] T \in {"uint16_t", "int16_t"} -> 2
      [] T \in {"uint32_t", "int32_t", "float"} -> 4
      [] T \in {"uint64_t", "int64_t", "double", "void*"} -> 8
      [] T = "long double" -> 16

is_integral(T)       == T \in IntTypes
is_floating_point(T) == T \in FloatTypes
is_signed(T) == T \in {"int8_t", "int16_t", "int32_t", "int64_t"} \cup FloatTypes

CHAR_BIT == 8

\* _getSize<T>(): the bit width of T rounded up to a multiple of 8, as a uchar.
_getSize(T) ==
    LET raw == (CHAR_BIT * sizeof(T)) % 256
        remainder == raw % 8
    IN IF 0 = remainder THEN raw ELSE (raw + 8 - remainder) % 256

_getTypeKeyInt(T) ==
    LET size == _getSize(T)
    IN CASE size = 8  -> IF is_signed(T) THEN "INT8" ELSE "UINT8"
         [] size = 16 -> IF is_signed(T) THEN "INT16" ELSE "UINT16"
         [] size = 32 -> IF is_signed(T) THEN "INT32" ELSE "UINT32"
         [] size = 64 -> IF is_signed(T) THEN "INT64" ELSE "UINT64"
         [] OTHER -> NONE

_getTypeKeyFloat(T) ==
    LET size == _getSize(T)
    IN CASE size = 32  -> "FLT32"
         [] size = 64  -> "FLT64"
         [] size = 128 -> "FLT128"
         [] OTHER -> NONE

_getTypeKey(T) ==
    IF is_integral(T) THEN _getTypeKeyInt(T)
    ELSE IF is_floating_point(T) THEN _getTypeKeyFloat(T)
    ELSE NONE

-----------------------------------------------------------------------------
(***************************************************************************)
(* Values and bytes                                                        *)
(***************************************************************************)

Reverse(s) == [k \in 1..Len(s) |-> s[Len(s) + 1 - k]]

\* static_cast<T>(0)
Zero(n) == [k \in 1..n |-> 0]

\* The digits of the natural number x as an n-byte unsigned integer.
ToDigits(x, n) == [k \in 1..n |-> (x \div (256 ^ (k - 1))) % 256]

\* The positions of the one bits of the byte b.
BitsOf(b) == {j \in 0..7 : (b \div (2 ^ j)) % 2 = 1}

\* The k-th digit of the integer whose one bits are at the positions in S.
DigitOf(S, k) ==
    LET bit(j) == IF (8 * (k - 1) + j) \in S THEN 2 ^ j ELSE 0
    IN bit(0) + bit(1) + bit(2) + bit(3) + bit(4) + bit(5) + bit(6) + bit(7)

\* bswap_16 / bswap_32 / bswap_64
bswap(v) == Reverse(v)

\* htole16/32/64: the identity on a little-endian host, a byte swap on a
\* big-endian one.
htole(v, be) == IF be THEN bswap(v) ELSE v

\* le16toh/32/64
letoh(v, be) == IF be THEN bswap(v) ELSE v

\* static_cast<uchar>(v >> i), i a multiple of 8
ShiftByte(v, i) == v[(i \div 8) + 1]

-----------------------------------------------------------------------------
(***************************************************************************)
(* Scalar codec                                                            *)
(***************************************************************************)

\* _fillArrayInt(input) for an integer type of 8 * Len(input) bits.
_fillArrayInt(input, be) ==
    LET size == 8 * Len(input)
        le_input == IF size \in {16, 32, 64} THEN htole(input, be) ELSE input
    IN [k \in 1..(size \div 8) |-> ShiftByte(le_input, 8 * (k - 1))]

\* _floatToInt<T, O>: the bit pattern of the float read as an O.
_floatToInt(input, be) == _fillArrayInt(input, be)

\* _floatToInt128: out[0] is the first 8 bytes in memory, the low limb on a
\* little-endian host and the high limb on a big-endian one.
_floatToInt128(input, be) ==
    LET lowLimb  == SubSeq(input, 1, 8)
        highLimb == SubSeq(input, 9, 16)
        out0 == IF be THEN highLimb ELSE lowLimb
        out1 == IF be THEN lowLimb ELSE highLimb
    IN _fillArrayInt(out0, be) \o _fillArrayInt(out1, be)

_fillArrayFloat(input, T, be) ==
    LET size == _getSize(T)
    IN CASE size = 32  -> _floatToInt(input, be)
         [] size = 64  -> _floatToInt(input, be)
         [] size = 128 -> _floatToInt128(input, be)
         [] OTHER -> <<>>

_fillArray(input, T, be) ==
    IF is_integral(T) THEN _fillArrayInt(input, be)
    ELSE IF is_floating_point(T) THEN _fillArrayFloat(input, T, be)
    ELSE <<>>

\* _setSize(arr, size): the uint32_t size, encoded, in front of arr.
_setSize(arr, size, be) == _fillArrayInt(ToDigits(size, 4), be) \o arr

\* _readArrayInt<T>(input) for an integer type of size bits.  The loop runs
\* over every bit position i in 0..size-1 and ORs input.at(i/8) << i into v
\* (source lines 195-196; the body's i is the loop variable the header
\* spells ii), the result truncated to size bits.
_readArrayInt(input, size, be) ==
    IF size \div 8 # Len(input) THEN Zero(size \div 8)
    ELSE LET ored == UNION {{j + i : j \in BitsOf(input[(i \div 8) + 1])} :
                            i \in 0..(size - 1)}
             v == [k \in 1..(size \div 8) |-> DigitOf(ored, k)]
         IN IF size \in {16, 32, 64} THEN letoh(v, be) ELSE v

_intToFloat(input, size, be) == _readArrayInt(input, size, be)

_intToFloat128(input, be) ==
    IF Len(input) # 16 THEN Zero(16)
    ELSE LET arr0 == _readArrayInt(SubSeq(input, 1, 8), 64, be)
             arr1 == _readArrayInt(SubSeq(input, 9, 16), 64, be)
             in0 == IF be THEN arr1 ELSE arr0
             in1 == IF be THEN arr0 ELSE arr1
         \* in[0] is the first 8 bytes in memory
         IN IF be THEN in1 \o in0 ELSE in0 \o in1

_readArrayFloat(input, T, be) ==
    LET size == _getSize(T)
    IN IF size \div 8 # Len(input) THEN Zero(sizeof(T))
       ELSE CASE size = 32  -> _intToFloat(input, 32, be)
              [] size = 64  -> _intToFloat(input, 64, be)
              [] size = 128 -> _intToFloat128(input, be)
              [] OTHER -> Zero(sizeof(T))

_readArray(input, T, be) ==
    IF is_integral(T) THEN _readArrayInt(input, _getSize(T), be)
    ELSE IF is_floating_point(T) THEN _readArrayFloat(input, T, be)
    ELSE Zero(sizeof(T))

-----------------------------------------------------------------------------
(***************************************************************************)
(* Sequence codec                                                          *)
(***************************************************************************)

\* Bytes that lie in memory behind a buffer's end: what a read past
\* input.end() returns.  A read behind these bytes as well faults.
PadLen == 4
PadBytes == {0, 255}
Pads == [1..PadLen -> PadBytes]

\* _getSize(const ByteVec& t): the uint32_t held by t.begin() .. t.begin()+4
\* (source line 300 spells the second iterator t,begin() + 4), which lies
\* partly behind t.end() when t has fewer than 4 bytes.
_getSize_ByteVec(t, pad, be) == _readArrayInt(SubSeq(t \o pad, 1, 4), 32, be)

\* fillOutputVector<T>(begin, end) over the elements s.
RECURSIVE fillOutputLoop(_, _, _, _, _)
fillOutputLoop(s, T, be, t, size) ==
    IF s = <<>> THEN [t |-> t, size |-> size]
    ELSE LET member == _fillArray(Head(s), T, be)
         IN IF Len(member) = 0
            THEN fillOutputLoop(Tail(s), T, be, t, size - 1)
            ELSE fillOutputLoop(Tail(s), T, be, t \o member, size)

fillOutputVector(s, T, be) ==
    LET r == fillOutputLoop(s, T, be, <<>>, Len(s))
    IN _setSize(r.t, r.size, be)

\* (size * indSize + 4) % 2^32 for the uint32_t with digits size, as the
\* pair of its 16-bit halves.
MulAdd4(size, indSize) ==
    LET lo  == size[1] + 256 * size[2]
        hi  == size[3] + 256 * size[4]
        pl  == lo * indSize
        ml  == pl % 65536
        mh  == (hi * indSize + pl \div 65536) % 65536
    IN [lo |-> (ml + 4) % 65536, hi |-> (mh + (ml + 4) \div 65536) % 65536]

\* Min(size, cap + 1) for the uint32_t with digits size: enough to tell how
\* many of the first cap elements the loop asks for, and whether it asks
\* for more.
Capped(size, cap) ==
    IF size[3] # 0 \/ size[4] # 0 THEN cap + 1
    ELSE Min(size[1] + 256 * size[2], cap + 1)

\* readByteVec<T>(begin, input, outsize): vals are the values assigned to
\* *(begin++), in order; oob tells that a byte at or behind input.end() was
\* read; fault that the loop ran off the padding as well.
readByteVec(input, T, outsize, pad, be) ==
    LET size    == _getSize_ByteVec(input, pad, be)
        indSize == _getSize(T) \div 8
        bound   == MulAdd4(size, indSize)
        mem     == input \o pad
    IN IF bound.hi # 0 \/ Len(input) < bound.lo
       THEN [vals |-> <<>>, oob |-> Len(input) < 4, fault |-> FALSE]
       ELSE LET inMem    == IF Len(mem) < 4 THEN 0 ELSE (Len(mem) - 4) \div indSize
                inInput  == IF Len(input) < 4 THEN 0 ELSE (Len(input) - 4) \div indSize
                want     == IF outsize > 0 THEN Min(Capped(size, inMem), outsize)
                            ELSE Capped(size, inMem)
                readSize == Min(want, inMem)
            IN [vals  |-> [idx \in 1..readSize |->
                            _readArray(SubSeq(mem, 4 + (idx - 1) * indSize + 1,
                                                   4 + idx * indSize), T, be)],
                oob   |-> Len(input) < 4 \/ want > inInput,
                fault |-> want > inMem]

-----------------------------------------------------------------------------
(***************************************************************************)
(* operator<< and operator>> on a SerializedMember                         *)
(***************************************************************************)

\* A SerializedMember as std::map's operator[] creates it.
FreshMember == [first |-> NONE, second |-> <<>>]

\* OutStreamHelper<T>::streamOut(k, v)
OutStreamHelper_streamOut(k, v, T, be) ==
    LET t == _fillArray(v, T, be)
    IN IF Len(t) = 0 THEN k
       ELSE [first |-> _getTypeKey(T), second |-> _setSize(t, 1, be)]

\* OutStreamHelper<T[N]>::streamOut(k, v)
OutStreamHelper_array_streamOut(k, v, T, be) ==
    [first |-> _getTypeKey(T), second |-> fillOutputVector(v, T, be)]

\* OutStreamHelper<std::vector<T> >::streamOut(k, v)
OutStreamHelper_vector_streamOut(k, v, T, be) ==
    [first |-> _getTypeKey(T), second |-> fillOutputVector(v, T, be)]

\* InStreamHelper<T>::streamIn(k, v), without the tag comparison.
streamIn_untagged(k, v, T, be) ==
    IF Len(k.second) < _getSize(T) \div 8 + 4 THEN v
    ELSE _readArray(SubSeq(k.second, 5, 4 + _getSize(T) \div 8), T, be)

\* InStreamHelper<T>::streamIn(k, v): the new value of v.
InStreamHelper_streamIn(k, v, T, be) ==
    IF k.first # _getTypeKey(T) \/ Len(k.second) < _getSize(T) \div 8 + 4 THEN v
    ELSE _readArray(SubSeq(k.second, 5, 4 + _getSize(T) \div 8), T, be)

\* InStreamHelper<T[N]>::streamIn(k, v), N = Len(v): the new v, and what
\* the reads did.
InStreamHelper_array_streamIn(k, v, T, pad, be) ==
    IF k.first # _getTypeKey(T) THEN [v |-> v, oob |-> FALSE, fault |-> FALSE]
    ELSE LET r == readByteVec(k.second, T, Len(v), pad, be)
         IN [v     |-> [i \in 1..Len(v) |-> IF i <= Len(r.vals) THEN r.vals[i] ELSE v[i]],
             oob   |-> r.oob,
             fault |-> r.fault]

\* InStreamHelper<std::vector<T> >::streamIn(k, v): readByteVec writes
\* through std::back_inserter(v).
InStreamHelper_vector_streamIn(k, v, T, pad, be) ==
    IF k.first # _getTypeKey(T) THEN [v |-> v, oob |-> FALSE, fault |-> FALSE]
    ELSE LET r == readByteVec(k.second, T, 0, pad, be)
         IN [v |-> v \o r.vals, oob |-> r.oob, fault |-> r.fault]

-----------------------------------------------------------------------------
(***************************************************************************)
(* Member store                                                            *)
(***************************************************************************)

StoreNames == {"x"}

\* The types streamed through the store: both signednesses of one width, an
\* integer and a float of one width, every width, and a type without a tag.
StoreTypes == {"uint8_t", "int8_t", "uint16_t", "int32_t", "float",
               "int64_t", "long double", "void*"}

EmptyMembers == [n \in {} |-> FreshMember]

\* Sample values of type T: 1 and 0x1234 (0x34 for one byte); the types that
\* are not streamed at all get one.
One(T)   == [k \in 1..sizeof(T) |-> IF k = 1 THEN 1 ELSE 0]
Mixed(T) == [k \in 1..sizeof(T) |-> IF k = 1 THEN 52 ELSE IF k = 2 THEN 18 ELSE 0]
Samples(T) == IF T \in OtherTypes THEN {One(T)} ELSE {One(T), Mixed(T)}

\* The arrays and vectors streamed out: the first n elements of
\* 1, 0x1234, 1, 0x1234, ... for n up to MaxLen.
SampleSeqs(T) ==
    {[i \in 1..n |-> IF i % 2 = 1 THEN One(T) ELSE Mixed(T)] : n \in 0..MaxLen}

\* What a destination holds before operator>>.
Sevens(T) == [k \in 1..sizeof(T) |-> 7]
DestScalars(T) == {Sevens(T)}
DestArrays(T)  == {[i \in 1..n |-> Sevens(T)] : n \in 1..MaxLen}
DestVectors(T) == {<<>>, <<Sevens(T)>>}

\* The bytes operator>> may meet behind a member's bytes.
ZeroPad == [i \in 1..PadLen |-> 0]
StorePads == {[i \in 1..PadLen |-> b] : b \in PadBytes}

NoEnc == [shape |-> "none", T |-> "", v |-> <<>>]

NoOp == [op |-> "none", shape |-> "none", name |-> "", T |-> "",
         before |-> <<>>, after |-> <<>>, changed |-> FALSE,
         mismatch |-> FALSE, oob |-> FALSE, fault |-> FALSE]

\* Serializable::key(k): std::map's operator[] inserts a fresh member.
key(m, k) ==
    IF k \in DOMAIN m THEN m
    ELSE [n \in (DOMAIN m) \cup {k} |-> IF n = k THEN FreshMember ELSE m[n]]

\* Serializable::contains(k)
contains(m, k) == k \in DOMAIN m

InitStoreVars ==
    /\ bigEndian \in BOOLEAN
    /\ _members = EmptyMembers
    /\ enc = [n \in StoreNames |-> NoEnc]
    /\ last = NoOp

\* obj.key(k)
Key(k) ==
    /\ _members' = key(_members, k)
    /\ last' = [NoOp EXCEPT !.op = "key", !.name = k,
                            !.changed = (_members' # _members)]
    /\ UNCHANGED <<bigEndian, enc>>

\* obj.contains(k)
Contains(k) ==
    /\ last' = [NoOp EXCEPT !.op = "contains", !.name = k,
                            !.mismatch = ~contains(_members, k)]
    /\ UNCHANGED <<bigEndian, _members, enc>>

\* obj.key(k) << v for the member streamed to new from old.
Streamed(k, shape, T, v, m, new) ==
    /\ _members' = [m EXCEPT ![k] = new]
    /\ enc' = [enc EXCEPT ![k] = [shape |-> shape, T |-> T, v |-> v]]
    /\ last' = [NoOp EXCEPT !.op = "encode", !.shape = shape, !.name = k, !.T = T,
                            !.changed = (new # m[k])]
    /\ UNCHANGED bigEndian

\* obj.key(k) << v, v a scalar of type T
EncodeScalar(k, T, v) ==
    LET m == key(_members, k)
    IN Streamed(k, "scalar", T, v, m, OutStreamHelper_streamOut(m[k], v, T, bigEndian))

\* obj.key(k) << v, v a T[N]
EncodeArray(k, T, v) ==
    /\ Len(v) > 0
    /\ LET m == key(_members, k)
       IN Streamed(k, "array", T, v, m,
                   OutStreamHelper_array_streamOut(m[k], v, T, bigEndian))

\* obj.key(k) << v, v a std::vector<T>
EncodeVector(k, T, v) ==
    LET m == key(_members, k)
    IN Streamed(k, "vector", T, v, m,
                OutStreamHelper_vector_streamOut(m[k], v, T, bigEndian))

\* obj.key(k) >> v for the destination holding before, then after.
Read(k, shape, T, m, before, after, oob, fault) ==
    /\ _members' = m
    /\ last' = [NoOp EXCEPT !.op = "decode", !.shape = shape, !.name = k, !.T = T,
                            !.before = before, !.after = after,
                            !.changed = (_members'[k] # m[k]),
                            !.mismatch = (m[k].first # _getTypeKey(T)),
                            !.oob = oob, !.fault = fault]
    /\ UNCHANGED <<bigEndian, enc>>

\* obj.key(k) >> v, v a scalar of type T
DecodeScalar(k, T, v) ==
    LET m == key(_members, k)
    IN Read(k, "scalar", T, m, v, InStreamHelper_streamIn(m[k], v, T, bigEndian),
            FALSE, FALSE)

\* The pads to try for obj.key(k) >> v.  The call's outcome depends on the
\* pad only when it reads behind the member's bytes (a buffer of fewer than
\* 4 bytes, or a count that passes readByteVec's length test by wrapping);
\* the other calls are enumerated once, with the zero pad.
PadsBehind(k, T) ==
    LET m == key(_members, k)[k]
    IN IF m.first = _getTypeKey(T) /\ readByteVec(m.second, T, 0, ZeroPad, bigEndian).oob
       THEN StorePads ELSE {ZeroPad}

\* obj.key(k) >> v, v a T[N]
DecodeArray(k, T, v, pad) ==
    LET m == key(_members, k)
        r == InStreamHelper_array_streamIn(m[k], v, T, pad, bigEndian)
    IN Read(k, "array", T, m, v, r.v, r.oob, r.fault)

\* obj.key(k) >> v, v a std::vector<T>
DecodeVector(k, T, v, pad) ==
    LET m == key(_members, k)
        r == InStreamHelper_vector_streamIn(m[k], v, T, pad, bigEndian)
    IN Read(k, "vector", T, m, v, r.v, r.oob, r.fault)

-----------------------------------------------------------------------------
(***************************************************************************)
(* readByteVec on a raw buffer                                             *)
(***************************************************************************)

RawBytes == {0, 64}
RawTypes == {"uint8_t", "uint32_t", "double", "void*"}
RawBuffers == UNION {[1..n -> RawBytes] : n \in 0..MaxBuf}

InitRawVars ==
    \E T \in RawTypes, input \in RawBuffers :
       rawCall = [T |-> T, input |-> input, outsize |-> 0, done |-> FALSE,
                  vals |-> <<>>, oob |-> FALSE, fault |-> FALSE]

\* readByteVec<T>(std::back_inserter(v), input)
ReadRawVector(pad) ==
    /\ ~rawCall.done
    /\ LET r == readByteVec(rawCall.input, rawCall.T, 0, pad, bigEndian)
       IN rawCall' = [rawCall EXCEPT !.done = TRUE, !.vals = r.vals,
                                     !.oob = r.oob, !.fault = r.fault]

\* readByteVec<T>(v, input, N)
ReadRawArray(N, pad) ==
    /\ ~rawCall.done
    /\ LET r == readByteVec(rawCall.input, rawCall.T, N, pad, bigEndian)
       IN rawCall' = [rawCall EXCEPT !.done = TRUE, !.outsize = N, !.vals = r.vals,
                                     !.oob = r.oob, !.fault = r.fault]

IdleRaw == [T |-> "", input |-> <<>>, outsize |-> 0, done |-> TRUE,
            vals |-> <<>>, oob |-> FALSE, fault |-> FALSE]

-----------------------------------------------------------------------------
(***************************************************************************)
(* Specifications                                                          *)
(***************************************************************************)

InitFactory ==
    /\ InitFactoryVars
    /\ bigEndian = FALSE
    /\ _members = EmptyMembers
    /\ enc = [n \in StoreNames |-> NoEnc]
    /\ last = NoOp
    /\ rawCall = IdleRaw

NextFactory ==
    \/ \E c \in Classes : New(c) /\ UNCHANGED <<storeVars, rawVars>>
    \/ \E n \in Names, p \in {NULL} \cup (1..Len(heap)) :
          Add(n, p) /\ UNCHANGED <<storeVars, rawVars>>
    \/ \E n \in Names : Create(n) /\ UNCHANGED <<storeVars, rawVars>>
    \/ Teardown /\ UNCHANGED <<storeVars, rawVars>>

SpecFactory == InitFactory /\ [][NextFactory]_vars

InitStore ==
    /\ InitStoreVars
    /\ InitFactoryVars
    /\ rawCall = IdleRaw

NextStore ==
    \/ \E k \in StoreNames : Key(k) /\ UNCHANGED <<factoryVars, rawVars>>
    \/ \E k \in StoreNames : Contains(k) /\ UNCHANGED <<factoryVars, rawVars>>
    \/ \E k \in StoreNames, T \in StoreTypes : \E v \in Samples(T) :
          EncodeScalar(k, T, v) /\ UNCHANGED <<factoryVars, rawVars>>
    \/ \E k \in StoreNames, T \in StoreTypes : \E v \in SampleSeqs(T) :
          EncodeArray(k, T, v) /\ UNCHANGED <<factoryVars, rawVars>>
    \/ \E k \in StoreNames, T \in StoreTypes : \E v \in SampleSeqs(T) :
          EncodeVector(k, T, v) /\ UNCHANGED <<factoryVars, rawVars>>
    \/ \E k \in StoreNames, T \in StoreTypes : \E v \in DestScalars(T) :
          DecodeScalar(k, T, v) /\ UNCHANGED <<factoryVars, rawVars>>
    \/ \E k \in StoreNames, T \in StoreTypes : \E v \in DestArrays(T), pad \in PadsBehind(k, T) :
          DecodeArray(k, T, v, pad) /\ UNCHANGED <<factoryVars, rawVars>>
    \/ \E k \in StoreNames, T \in StoreTypes : \E v \in DestVectors(T), pad \in PadsBehind(k, T) :
          DecodeVector(k, T, v, pad) /\ UNCHANGED <<factoryVars, rawVars>>

SpecStore == InitStore /\ [][NextStore]_vars

InitRaw ==
    /\ InitRawVars
    /\ InitFactoryVars
    /\ bigEndian \in BOOLEAN
    /\ _members = EmptyMembers
    /\ enc = [n \in StoreNames |-> NoEnc]
    /\ last = NoOp

NextRaw ==
    \/ \E pad \in Pads : ReadRawVector(pad) /\ UNCHANGED <<factoryVars, storeVars>>
    \/ \E N \in 1..MaxLen, pad \in Pads :
          ReadRawArray(N, pad) /\ UNCHANGED <<factoryVars, storeVars>>

SpecRaw == InitRaw /\ [][NextRaw]_vars

-----------------------------------------------------------------------------
(***************************************************************************)
(* Properties                                                              *)
(***************************************************************************)

\* C1: while the factory lives, every name maps to the first non-null
\* prototype ever passed to add under it (a later add never replaces it);
\* create(name) returns NULL exactly when there is none, otherwise a newly
\* allocated object of that first prototype's class; and no create step
\* changes the registry.
C1_CreateYieldsFirstPrototype ==
    /\ [](/\ factoryAlive =>
               \A n \in Names : create(_serializables, n) = firstReg[n]
          /\ flast.op = "create" =>
               /\ (flast.result = NULL) <=> (firstReg[flast.name] = NULL)
               /\ flast.result # NULL =>
                    /\ flast.result = Len(heap)
                    /\ flast.result \notin Range(_serializables)
                    /\ heap[flast.result].deletes = 0
                    /\ heap[flast.result].type = heap[firstReg[flast.name]].type)
    /\ [][flast'.op = "create" => _serializables' = _serializables]_vars

\* C1 witness: create has returned an object for a name under which a
\* prototype of another class was refused as a duplicate.
C1_Witness ==
    /\ flast.op = "create"
    /\ flast.result # NULL
    /\ \E c \in rejected[flast.name] : c # heap[flast.result].type

\* C2: after add(name, inst) with name already registered (inst non-null and
\* not itself held by the registry), inst has been destroyed and is not
\* stored in the registry.
C2_RejectedInstanceDestroyed ==
    (flast.op = "add" /\ flast.inst # NULL /\ flast.found /\ ~flast.held) =>
        /\ heap[flast.inst].deletes > 0
        /\ flast.inst \notin Range(_serializables)

\* C10: once the factory is torn down, every prototype add has stored was
\* destroyed exactly once.
C10_TeardownDestroysEachOnce ==
    ~factoryAlive => \A p \in accepted : heap[p].deletes = 1

\* The scalar types the round trip is stated for: the integers of 8 to 64
\* bits and the floats of 32 and 64 bits.
RoundTripTypes == IntTypes \cup {"float", "double"}

\* C3: member >> d, after member << v with v and d of the same supported
\* scalar type, leaves d = v.
C3_ScalarRoundTrip ==
    (/\ last.op = "decode" /\ last.shape = "scalar"
     /\ enc[last.name].shape = "scalar"
     /\ enc[last.name].T = last.T
     /\ last.T \in RoundTripTypes) =>
        last.after = enc[last.name].v

\* C4: member >> d, after member << s with s a sequence of a supported
\* element type, leaves a vector d of that element type equal to s, and an
\* array d of Len(s) elements equal to s.  The vector is taken empty before
\* the call, the case in which the property does not depend on whether
\* operator>> replaces the vector's elements or appends to them.
C4_SequenceRoundTrip ==
    (/\ last.op = "decode"
     /\ enc[last.name].shape \in {"array", "vector"}
     /\ enc[last.name].T = last.T
     /\ _getTypeKey(last.T) # NONE) =>
        /\ (last.shape = "vector" /\ last.before = <<>>) =>
              last.after = enc[last.name].v
        /\ (last.shape = "array" /\ Len(last.before) = Len(enc[last.name].v)) =>
              last.after = enc[last.name].v

\* C5: after member << v, v of an integer type T, the member's bytes are
\* 1, 0, 0, 0 followed by the sizeof(T) bytes of v, least significant first,
\* on either host byte order.
C5_ScalarLayout ==
    (last.op = "encode" /\ last.shape = "scalar" /\ last.T \in IntTypes) =>
        /\ Len(_members[last.name].second) = 4 + sizeof(last.T)
        /\ _members[last.name].second = <<1, 0, 0, 0>> \o enc[last.name].v

\* The concatenation of the sequences of ss.
RECURSIVE Flatten(_)
Flatten(ss) == IF ss = <<>> THEN <<>> ELSE Head(ss) \o Flatten(Tail(ss))

\* C6: after member << s, s an array or vector of T, the member's bytes are
\* the little-endian uint32 count followed by the little-endian encodings
\* of count elements in order, count being the number of elements with a
\* non-empty encoding (all of them when T has a tag, none otherwise), and
\* the member's tag is tagOf(T).
C6_SequenceLayout ==
    (last.op = "encode" /\ last.shape \in {"array", "vector"}) =>
        LET s == enc[last.name].v
            kept == IF _getTypeKey(last.T) = NONE THEN <<>> ELSE s
            m == _members[last.name]
        IN /\ m.first = _getTypeKey(last.T)
           /\ Len(m.second) = 4 + Len(kept) * sizeof(last.T)
           /\ m.second = ToDigits(Len(kept), 4) \o Flatten(kept)

\* C7: member >> d with the member's tag different from the tag of d's
\* (element) type leaves d as it was, and the member as it was.
C7_MismatchLeavesDestination ==
    (last.op = "decode" /\ last.mismatch) =>
        /\ last.after = last.before
        /\ ~last.changed

\* C7 witness: a mismatched operator>> on a member that holds an encoded
\* value long enough for the destination's type.
C7_Witness ==
    /\ last.op = "decode"
    /\ last.mismatch
    /\ last.shape = "scalar"
    /\ _members[last.name].first # NONE
    /\ Len(_members[last.name].second) >= 4 + sizeof(last.T)

\* The buffer is shorter than 4 + count * sizeof(T), count the little-endian
\* uint32 in its first 4 bytes and the product the integer product.
TooShort(input, T) ==
    \/ Len(input) < 4
    \/ input[3] # 0
    \/ input[4] # 0
    \/ Len(input) < 4 + (input[1] + 256 * input[2]) * sizeof(T)

\* C8: readByteVec on a buffer shorter than 4 + count * sizeof(T) writes
\* nothing to the destination and reads no byte at or behind the buffer's
\* end.
C8_ShortBufferUntouched ==
    (rawCall.done /\ TooShort(rawCall.input, rawCall.T)) =>
        /\ rawCall.vals = <<>>
        /\ ~rawCall.oob

\* C9: member << v, v a scalar, array or vector of a type without a tag,
\* leaves the member's tag and bytes as they were.
C9_UnsupportedEncodeKeepsMember ==
    (last.op = "encode" /\ _getTypeKey(last.T) = NONE) => ~last.changed


=============================================================================
